---- MODULE Spec2Model ----
(***************************************************************************)
(* The stage sequencer of the PSB procurement demo: the state kept by the  *)
(* App component (App.js), its handlers, the network calls the stage       *)
(* screens make before they call back into App, and the screen selected    *)
(* by renderWorkflowScreen.                                                *)
(*                                                                         *)
(* A stage screen starts a network call on a click and calls the App       *)
(* handler it was rendered with when the call returns.  That handler is a  *)
(* closure of the render in which the click happened: it reads the         *)
(* currentStage, workflowData, activeIndex and allRequirements of that     *)
(* render, while its functional updates (setX(prev => ...)) read the       *)
(* state at the time they are applied.  A call in flight is an entry of    *)
(* `pending` that holds the captured values.                               *)
(*                                                                         *)
(* Indices: allRequirements is a JavaScript array (0-based); here it is a  *)
(* sequence (1-based), activeIndex = 0 stands for null and findIndex's -1  *)
(* is 0 as well.                                                           *)
(***************************************************************************)
EXTENDS Integers, Sequences, FiniteSets, TLC

VARIABLES
    viewMode,          \* 'dashboard' or 'workflow'
    allRequirements,   \* all requirement records
    activeIndex,       \* index of the active record, 0 for null
    currentStage,      \* the case number renderWorkflowScreen switches on
    isApproved,        \* "null", "true" or "false"
    workflowData,      \* the data collected during the stages
    pending,           \* the network calls in flight, with their closures
    serverProjects,    \* the project ids the backend knows
    last,              \* history: the handler that ran last and the state it ran on
    resumes,           \* history: the number of progress cards opened so far
    navigation,        \* backend: the navigation record of each project
    progressData,      \* Dashboard: the progress records last fetched
    progressSummary,   \* Dashboard: the progress summary last fetched, or null
    rejectedData,      \* Dashboard: the rejected projects last fetched
    dashboardLoading,  \* Dashboard: its loading flag
    rounds,            \* Dashboard: the calls of fetchAllData in flight
    fetched            \* history: the step of the Dashboard that ran last

\* the state of App and of the calls of its screens
appVars == <<viewMode, allRequirements, activeIndex, currentStage, isApproved,
             workflowData, pending, serverProjects, last, resumes, navigation>>

\* the state of the Dashboard component
dashboardVars == <<progressData, progressSummary, rejectedData, dashboardLoading,
                   rounds, fetched>>

vars == <<viewMode, allRequirements, activeIndex, currentStage, isApproved,
          workflowData, pending, serverProjects, last, resumes, navigation,
          progressData, progressSummary, rejectedData, dashboardLoading,
          rounds, fetched>>

-----------------------------------------------------------------------------
(* Bounds of the model *)

\* the number of requirement records kept
MaxReqs == 1
\* the number of network calls in flight at a time
MaxPending == 2
\* the number of progress cards opened in a behaviour
MaxResumes == 1
\* the same two numbers when only the dashboard is used
MaxDashboardReqs == 2
MaxDashboardResumes == 2
\* the largest current_stage and current_page the backend reports
MaxNavStage == 12
MaxPage == 12
\* the number of progress records the backend lists, beside the list of
\* ScenarioProgress
MaxSnapshots == 2
\* the number of projects the backend lists as rejected
MaxRejected == 1
\* the number of calls of fetchAllData in flight at a time
MaxRounds == 1

ProjectIds == {"P1", "P2"}
\* the projects the backend holds when the page is loaded
InitialProjects == {"P1"}
\* current_stage of a navigation record: any integer the backend stores
NavStages == -1 .. MaxNavStage
\* current_page of a progress record (1-indexed)
Pages == 1 .. MaxPage

-----------------------------------------------------------------------------
(* Values *)

Null == "null"
Undefined == "undefined"
EmptyData == [k \in {} |-> Undefined]

\* { ...a, ...b }
Merge(a, b) ==
    [k \in (DOMAIN a) \cup (DOMAIN b) |-> IF k \in DOMAIN b THEN b[k] ELSE a[k]]

\* obj?.key
Get(obj, key) == IF key \in DOMAIN obj THEN obj[key] ELSE Undefined

\* a || b on project ids
OrElse(a, b) == IF a # Undefined THEN a ELSE b

-----------------------------------------------------------------------------
(* The screens *)

GateCase == 4
CompleteCase == 10
CollapseFrom == 11
ApprovedFrom == 5
DashboardListLimit == 6

\* Three switches that differ from renderWorkflowScreen in one respect each;
\* a property about the screens has to fail when one of them takes its place.

\* the approval screen one case later
renderGateOneCaseLater(stage) ==
    CASE stage = 0 -> "RequirementForm"
      [] stage = 1 -> "FunctionalAnalysis"
      [] stage = 2 -> "TechnicalReview"
      [] stage = 3 -> "TenderDrafting"
      [] stage = 4 -> "PublishRFP"
      [] stage = 5 -> "ApprovalGate"
      [] stage = 6 -> "ReceiveBids"
      [] stage = 7 -> "VendorEvaluation"
      [] stage = 8 -> "PurchaseOrder"
      [] stage = 9 -> "ContractSigning"
      [] stage = 10 -> "ProcurementComplete"
      [] OTHER -> "RequirementForm"

\* two cases with the same screen
renderSharedScreen(stage) ==
    CASE stage = 0 -> "RequirementForm"
      [] stage = 1 -> "FunctionalAnalysis"
      [] stage = 2 -> "TechnicalReview"
      [] stage = 3 -> "TenderDrafting"
      [] stage = 4 -> "ApprovalGate"
      [] stage = 5 -> "PublishRFP"
      [] stage = 6 -> "ReceiveBids"
      [] stage = 7 -> "ReceiveBids"
      [] stage = 8 -> "PurchaseOrder"
      [] stage = 9 -> "ContractSigning"
      [] stage = 10 -> "ProcurementComplete"
      [] OTHER -> "RequirementForm"

\* a default branch that shows the completion screen
renderDefaultComplete(stage) ==
    CASE stage = 0 -> "RequirementForm"
      [] stage = 1 -> "FunctionalAnalysis"
      [] stage = 2 -> "TechnicalReview"
      [] stage = 3 -> "TenderDrafting"
      [] stage = 4 -> "ApprovalGate"
      [] stage = 5 -> "PublishRFP"
      [] stage = 6 -> "ReceiveBids"
      [] stage = 7 -> "VendorEvaluation"
      [] stage = 8 -> "PurchaseOrder"
      [] stage = 9 -> "ContractSigning"
      [] stage = 10 -> "ProcurementComplete"
      [] OTHER -> "ProcurementComplete"

\* switch (currentStage) { case 0: ... case 10: ... default: ... }
renderWorkflowScreen(stage) ==
    CASE stage = 0 -> "RequirementForm"
      [] stage = 1 -> "FunctionalAnalysis"
      [] stage = 2 -> "TechnicalReview"
      [] stage = 3 -> "TenderDrafting"
      [] stage = 4 -> "ApprovalGate"
      [] stage = 5 -> "PublishRFP"
      [] stage = 6 -> "ReceiveBids"
      [] stage = 7 -> "VendorEvaluation"
      [] stage = 8 -> "PurchaseOrder"
      [] stage = 9 -> "ContractSigning"
      [] stage = 10 -> "ProcurementComplete"
      [] OTHER -> "RequirementForm"

\* The default branch returns the form: nothing is thrown, logged or shown.
InvalidStageSignalled(stage) == FALSE

\* The screens that are given onComplete={handleStageComplete}
StageScreens ==
    {"FunctionalAnalysis", "TechnicalReview", "TenderDrafting", "PublishRFP",
     "ReceiveBids", "VendorEvaluation", "PurchaseOrder", "ContractSigning"}

\* What App renders below the header
Mounted ==
    IF viewMode = "dashboard" THEN "Dashboard" ELSE renderWorkflowScreen(currentStage)

\* const currentRequirement = activeIndex !== null ? allRequirements[activeIndex] : null
currentRequirementId ==
    IF activeIndex = 0 THEN Undefined ELSE allRequirements[activeIndex].projectId

-----------------------------------------------------------------------------
(* The sidebar: the stage registry and the status it gives each entry *)

\* stages of data/workflowData.js: id and isGate of each entry, with the
\* screen its name describes
stages ==
    << [id |-> 1, name |-> "Requirement Raised", isGate |-> FALSE],
       [id |-> 2, name |-> "Functional & Technical Analysis", isGate |-> FALSE],
       [id |-> 3, name |-> "Technical Review", isGate |-> FALSE],
       [id |-> 4, name |-> "Tender/RFP Drafting", isGate |-> FALSE],
       [id |-> 5, name |-> "In-Principle Approval", isGate |-> TRUE],
       [id |-> 6, name |-> "Publish RFP", isGate |-> FALSE],
       [id |-> 7, name |-> "Receive Bids", isGate |-> FALSE],
       [id |-> 8, name |-> "Vendor Evaluation", isGate |-> FALSE],
       [id |-> 9, name |-> "Purchase Order", isGate |-> FALSE],
       [id |-> 10, name |-> "SLA & Contract", isGate |-> FALSE] >>

\* PAGE_INFO.currentPage of a screen: the id of its registry entry (the
\* completion screen is page 11 and has no entry)
PageOf(screen) ==
    CASE screen = "RequirementForm" -> 1
      [] screen = "FunctionalAnalysis" -> 2
      [] screen = "TechnicalReview" -> 3
      [] screen = "TenderDrafting" -> 4
      [] screen = "ApprovalGate" -> 5
      [] screen = "PublishRFP" -> 6
      [] screen = "ReceiveBids" -> 7
      [] screen = "VendorEvaluation" -> 8
      [] screen = "PurchaseOrder" -> 9
      [] screen = "ContractSigning" -> 10
      [] screen = "ProcurementComplete" -> 11

\* WorkflowSidebar.getStageStatus(stageId), with the currentStage and
\* isApproved that App passes on unchanged
getStageStatus(stageId) ==
    IF currentStage = 0 THEN "pending"
    ELSE IF stageId < currentStage THEN "completed"
    ELSE IF stageId = currentStage THEN "current"
    ELSE IF currentStage = 9 /\ stageId = 10 THEN "pending"
    ELSE IF stageId = 5 /\ isApproved = "false" THEN "rejected"
    ELSE "pending"

-----------------------------------------------------------------------------
(* The stage screens: the project id each one works on and the object it   *)
(* hands to onComplete.  Of that object the model keeps the keys a later    *)
(* screen reads the project id from (projectId, generatedRfp.projectId)     *)
(* and completedPage, which every screen but the last supplies anew; the    *)
(* form contents, which App only stores, are left out.                      *)

\* const projectId = workflowData?.... || requirement?.... of the screen of `stage`
ProjectIdFor(stage, wd, reqId) ==
    CASE stage \in {1, 2, 4, 5} -> reqId
      [] stage = 3 -> OrElse(Get(wd, "generatedRfp"), reqId)
      [] stage = 6 -> OrElse(Get(wd, "generatedRfp"), OrElse(Get(wd, "projectId"), reqId))
      [] stage = 7 -> OrElse(Get(wd, "projectId"), OrElse(Get(wd, "generatedRfp"), reqId))
      [] OTHER -> OrElse(Get(wd, "projectId"), reqId)

\* if (!projectId) { alert(...); return; } opens every submit handler but
\* ContractSigning.handleComplete
HasProjectIdGuard(stage) == stage # 9

\* the argument of onComplete({...}) of the screen of `stage`
StageData(stage, pid) ==
    CASE stage = 1 -> [completedPage |-> 2]
      [] stage = 2 -> [generatedRfp |-> pid, completedPage |-> 3]
      [] stage = 3 -> [projectId |-> pid, completedPage |-> 4]
      [] stage = 5 -> [completedPage |-> 6]
      [] stage = 6 -> [projectId |-> pid, completedPage |-> 7]
      [] stage = 7 -> [projectId |-> pid, completedPage |-> 8]
      [] stage = 8 -> [projectId |-> pid, completedPage |-> 9]
      [] stage = 9 -> [projectId |-> pid]

-----------------------------------------------------------------------------
(* Calls in flight, in the order in which they were started *)

Call(kind, live, stage, wd, idx, newIdx, pid, data, approved) ==
    [kind |-> kind,         \* "submit", "stage", "decision", "resume" or "idle"
     live |-> live,         \* the screen that started it is still mounted
     stage |-> stage,       \* currentStage of the render that started it
     wd |-> wd,             \* workflowData of that render
     idx |-> idx,           \* activeIndex of that render; existingIndex of a resume
     newIdx |-> newIdx,     \* allRequirements.length of that render (as an index)
     pid |-> pid,           \* the project the call is about
     data |-> data,         \* the object the screen will hand to onComplete
     approved |-> approved] \* the decision

Slots == 1 .. MaxPending
CanStart == Len(pending) < MaxPending
InFlight(s) == s <= Len(pending)

\* loading / submitting / completing / isSubmitting of the mounted screen:
\* set before the call, cleared in finally, false in a newly mounted screen
loading == \E s \in 1 .. Len(pending) : pending[s].live

\* the calls left after the call of slot `done` returned (0: none did);
\* `remounted`: the render that follows shows another screen
Settle(calls, done, remounted) ==
    LET left == SelectSeq([i \in 1 .. Len(calls) |-> [at |-> i, call |-> calls[i]]],
                          LAMBDA e : e.at # done)
    IN  [i \in 1 .. Len(left) |->
            IF remounted THEN [left[i].call EXCEPT !.live = FALSE] ELSE left[i].call]

\* the history record of a handler that runs now: its name, the state it
\* runs on, and its argument
Ran(op, data, approved) ==
    [op |-> op, stage |-> currentStage, appr |-> isApproved, wd |-> workflowData,
     view |-> viewMode, active |-> activeIndex, reqs |-> allRequirements,
     data |-> data, approved |-> approved]

\* the history record of a handler that overwrites the sequencer state
Entered(op) ==
    [op |-> op, stage |-> 0, appr |-> Null, wd |-> EmptyData,
     view |-> viewMode, active |-> 0, reqs |-> <<>>,
     data |-> EmptyData, approved |-> FALSE]

\* the history record of a resume: the project, the existingIndex found for
\* it, the backend's answers, and the state the resume ran on
Resolved(pid, existing, navFound, navStage, currentPage) ==
    [op |-> "resolve", pid |-> pid, existing |-> existing, navFound |-> navFound,
     navStage |-> navStage, currentPage |-> currentPage,
     stage |-> currentStage, appr |-> isApproved, wd |-> workflowData,
     view |-> viewMode, active |-> activeIndex, reqs |-> allRequirements]

\* the history record of a call of `kind` that failed: the screen alerted
\* the user and made no callback
Failed(kind) ==
    [op |-> "failed", kind |-> kind, alerted |-> TRUE,
     stage |-> currentStage, appr |-> isApproved, wd |-> workflowData,
     view |-> viewMode, active |-> activeIndex, reqs |-> allRequirements]

-----------------------------------------------------------------------------
(* Requirement records: reqId always equals projectId (both are set from    *)
(* the same value wherever a record is built), so one field stands for both *)

Requirement(pid, stage, status, approved, wd) ==
    [projectId |-> pid, stage |-> stage, status |-> status,
     isApproved |-> approved, workflowData |-> wd]

\* allRequirements.findIndex(req => req.projectId === projectId || req.reqId === projectId)
findIndex(reqs, pid) ==
    IF \E i \in 1 .. Len(reqs) : reqs[i].projectId = pid
    THEN CHOOSE i \in 1 .. Len(reqs) :
            /\ reqs[i].projectId = pid
            /\ \A j \in 1 .. Len(reqs) : reqs[j].projectId = pid => i <= j
    ELSE 0

-----------------------------------------------------------------------------
(* The Dashboard component: what it fetches and the counts it shows *)

\* the four fetches fetchAllData awaits
Sources == {"progress", "summary", "rejected", "navigation"}

\* overall_progress of a progress record
ProgressValues == {0, 30, 50, 100}

\* the overall_progress values of the five records of the specification's example
ScenarioProgress == <<0, 50, 100, 100, 30>>

\* data.projects of /requirements/progress/list/all; the i-th record is the
\* one of project i
Snapshots(values) ==
    [i \in 1 .. Len(values) |-> [project_id |-> i, overall_progress |-> values[i]]]

ProgressLists ==
    {Snapshots(values) :
        values \in (UNION {[1 .. n -> ProgressValues] : n \in 0 .. MaxSnapshots})
                       \cup {ScenarioProgress}}

\* the answers of /requirements/progress/summary
Summaries ==
    {[loaded |-> TRUE, total_projects |-> n] : n \in (0 .. MaxSnapshots) \cup {Len(ScenarioProgress)}}

\* the answers of /requirements/rejected/list; of projects the ids are kept
RejectedLists ==
    {[total_rejected |-> n, projects |-> ids] :
        n \in 0 .. MaxRejected, ids \in SUBSET (1 .. MaxRejected)}

\* useState(null) of progressSummary: no summary is held, and
\* progressSummary?.total_projects is undefined
NoSummary == [loaded |-> FALSE, total_projects |-> 0]

\* useState({ total_rejected: 0, projects: [] })
NoRejected == [total_rejected |-> 0, projects |-> {}]

\* rejectedData.projects.some(r => r.project_id === projectId)
isProjectRejected(projectId) == projectId \in rejectedData.projects

\* progressSummary?.total_projects || progressData.length || 0
totalProjects ==
    IF progressSummary.loaded /\ progressSummary.total_projects # 0
    THEN progressSummary.total_projects
    ELSE Len(progressData)

\* the rejected count taken from the length of the list
totalRejectedFromList == Cardinality(rejectedData.projects)

\* rejectedData.total_rejected || 0
totalRejected == rejectedData.total_rejected

totalCompleted ==
    LET Complete(p) == p.overall_progress = 100
    IN  Len(SelectSeq(progressData, Complete))

\* the count that takes every record below 100
totalInProgressFromZero ==
    LET Below(p) == p.overall_progress < 100
    IN  Len(SelectSeq(progressData, Below))

totalInProgress ==
    LET Started(p) == p.overall_progress > 0 /\ p.overall_progress < 100
    IN  Len(SelectSeq(progressData, Started))

\* the counts of the four cards
stats ==
    [total |-> totalProjects, rejected |-> totalRejected,
     inProgress |-> totalInProgress, completed |-> totalCompleted]

\* the "(n in progress)" of the Project Progress list, whose cards are the
\* records counted
listedInProgress ==
    LET Listed(p) == ~isProjectRejected(p.project_id) /\ p.overall_progress < 100
    IN  Len(SelectSeq(progressData, Listed))

\* what the Dashboard holds of its three sources
Held == <<progressData, progressSummary, rejectedData>>

\* history of the Dashboard: the step that ran last; a fetch that failed
\* keeps what was held when it failed
Fetched(op, source, ok) ==
    [op |-> op, source |-> source, ok |-> ok,
     before |-> IF ok THEN <<>> ELSE Held]

-----------------------------------------------------------------------------
-----------------------------------------------------------------------------
(* The backend's navigation records: for each project none (<<>>) or one   *)
(* (<<current_stage>>).  The records are followed in RoundTripSpec; in the  *)
(* other specifications the answer of the navigation fetch is drawn freely  *)
(* and the records are left as they are.                                    *)

NoNavigation == [pid \in ProjectIds |-> <<>>]

\* markNavigationComplete: current_stage: 11
NavigationCompleteStage == 11

\* a gate that stores the case after PublishRFP
NavigationNextStagePastPublish(stage) ==
    IF stage = 4 THEN 6 ELSE stage + 1

\* NAVIGATION.nextStage of the screen rendered for case `stage`
NavigationNextStage(stage) ==
    CASE stage = 0 -> 1     \* RequirementForm
      [] stage = 1 -> 2     \* FunctionalAnalysis
      [] stage = 2 -> 3     \* TechnicalReview
      [] stage = 3 -> 4     \* TenderDrafting
      [] stage = 4 -> 5     \* ApprovalGate
      [] stage = 5 -> 6     \* PublishRFP
      [] stage = 6 -> 7     \* ReceiveBids
      [] stage = 7 -> 8     \* VendorEvaluation
      [] stage = 8 -> 9     \* PurchaseOrder
      [] stage = 9 -> 10    \* ContractSigning

\* POST /requirements/navigation/{projId} with current_stage, accepted by the
\* backend; a request for no project changes no record
updateNavigation(projId, stage) ==
    IF projId \in ProjectIds
    THEN [navigation EXCEPT ![projId] = <<stage>>]
    ELSE navigation

\* DELETE /requirements/navigation/{projId}
deleteNavigation(projId) ==
    IF projId \in ProjectIds
    THEN [navigation EXCEPT ![projId] = <<>>]
    ELSE navigation

\* the history record of a screen whose navigation update the backend
\* accepted before it called back into App
Stored(op, pid, stage) ==
    [op |-> op, pid |-> pid, from |-> stage, view |-> viewMode]

Init ==
    /\ progressData = <<>>
    /\ progressSummary = NoSummary
    /\ rejectedData = NoRejected
    /\ dashboardLoading = TRUE
    /\ rounds = <<Sources>>
    /\ fetched = Fetched("mount", "none", TRUE)
    /\ viewMode = "dashboard"
    /\ allRequirements = <<>>
    /\ activeIndex = 0
    /\ currentStage = 0
    /\ isApproved = Null
    /\ workflowData = EmptyData
    /\ pending = <<>>
    /\ serverProjects = InitialProjects
    /\ last = Ran("init", EmptyData, FALSE)
    /\ resumes = 0
    /\ navigation = NoNavigation

-----------------------------------------------------------------------------
(* The values the handlers compute *)

PublishCase == 5

\* req.stage || 1
ViewStage(req) == IF req.stage = 0 THEN 1 ELSE req.stage

\* req.isApproved || null
ViewApproved(req) == IF req.isApproved = "true" THEN "true" ELSE Null

\* a completion that passes over the next case
NewStageSkipsOne(stage) == stage + 2

\* const newStage = currentStage + 1
NewStage(stage) == stage + 1

\* an approval that continues one case after PublishRFP
DecidedStageReceiveBids(approved, stage) == IF approved THEN PublishCase + 1 ELSE stage

\* handleApproval: if (approved) setCurrentStage(5); a rejection sets no stage
DecidedStage(approved, stage) == IF approved THEN PublishCase ELSE stage

\* handleApproval: setIsApproved(approved)
DecidedApproval(approved) == IF approved THEN "true" ELSE "false"

\* Three computations that differ from FrontendStage in one respect each

\* the progress page is used even when a navigation record was found
FrontendStageFromPage(navFound, navStage, currentPage) ==
    LET stage == currentPage - 1
    IN  IF stage >= CollapseFrom THEN CompleteCase ELSE stage

\* the progress page is taken as the stage, without the shift to 0-indexed
FrontendStagePageUnshifted(navFound, navStage, currentPage) ==
    LET stage == IF navFound THEN navStage ELSE currentPage
    IN  IF stage >= CollapseFrom THEN CompleteCase ELSE stage

\* stages of 11 and above are kept
FrontendStageUncollapsed(navFound, navStage, currentPage) ==
    IF navFound THEN navStage ELSE currentPage - 1

\* frontendStage of handleViewProjectById: the navigation record's stage when
\* navData.found && navData.current_stage !== undefined, else currentPage - 1;
\* 11 and above show the completion screen
FrontendStage(navFound, navStage, currentPage) ==
    LET stage == IF navFound THEN navStage ELSE currentPage - 1
    IN  IF stage >= CollapseFrom THEN CompleteCase ELSE stage

\* the stages handleViewProjectById can compute from the backend's answers
FrontendStages ==
    {FrontendStage(navFound, navStage, currentPage) :
        navFound \in BOOLEAN, navStage \in NavStages, currentPage \in Pages}

\* the approval derived from the case of the approval screen on
ResumeApprovedFromGate(stage) == IF stage >= GateCase THEN "true" ELSE Null

\* frontendStage >= 5 ? true : null
ResumeApproved(stage) == IF stage >= ApprovedFrom THEN "true" ELSE Null

\* prev.map((req, i) => i === index ? f(req) : req)
MapAt(reqs, index, new) ==
    [i \in 1 .. Len(reqs) |-> IF i = index THEN new ELSE reqs[i]]

-----------------------------------------------------------------------------
(* Handlers that run on a click *)

\* Dashboard: New Requirement
handleNewRequirement ==
    /\ viewMode = "dashboard"
    /\ activeIndex' = 0
    /\ currentStage' = 0
    /\ isApproved' = Null
    /\ workflowData' = EmptyData
    /\ viewMode' = "workflow"
    /\ UNCHANGED <<allRequirements, serverProjects>>
    /\ \E remounted \in {Mounted' # Mounted} : pending' = Settle(pending, 0, remounted)
    /\ last' = Entered("newRequirement")
    /\ UNCHANGED <<resumes, navigation, dashboardVars>>

\* Dashboard: a card of the local list, requirements.slice(0, 6)
handleViewRequirement(index) ==
    /\ viewMode = "dashboard"
    /\ index \in 1 .. Len(allRequirements)
    /\ index <= DashboardListLimit
    /\ LET req == allRequirements[index]
       IN  /\ activeIndex' = index
           /\ currentStage' = ViewStage(req)
           /\ isApproved' = ViewApproved(req)
           /\ workflowData' = req.workflowData
    /\ viewMode' = "workflow"
    /\ UNCHANGED <<allRequirements, serverProjects>>
    /\ \E remounted \in {Mounted' # Mounted} : pending' = Settle(pending, 0, remounted)
    /\ last' = Entered("viewRequirement")
    /\ UNCHANGED <<resumes, navigation, dashboardVars>>

\* a return to the dashboard that keeps the active record
handleBackToDashboardKeepsActive ==
    /\ viewMode = "workflow"
    /\ viewMode' = "dashboard"
    /\ currentStage' = 0
    /\ isApproved' = Null
    /\ workflowData' = EmptyData
    /\ UNCHANGED <<allRequirements, activeIndex, serverProjects>>
    /\ \E remounted \in {Mounted' # Mounted} : pending' = Settle(pending, 0, remounted)
    /\ last' = Entered("backToDashboard")
    /\ UNCHANGED <<resumes, navigation, dashboardVars>>

\* Header: Dashboard, sidebar: Back to Dashboard (neither is ever disabled)
handleBackToDashboard ==
    /\ viewMode = "workflow"
    /\ viewMode' = "dashboard"
    /\ activeIndex' = 0
    /\ currentStage' = 0
    /\ isApproved' = Null
    /\ workflowData' = EmptyData
    /\ UNCHANGED <<allRequirements, serverProjects>>
    /\ \E remounted \in {Mounted' # Mounted} : pending' = Settle(pending, 0, remounted)
    /\ last' = Entered("backToDashboard")
    /\ UNCHANGED <<resumes, navigation, dashboardVars>>

\* ProcurementComplete: onReset
handleReset ==
    /\ viewMode = "workflow"
    /\ Mounted = "ProcurementComplete"
    /\ allRequirements' =
          IF currentStage >= CompleteCase /\ activeIndex # 0
          THEN MapAt(allRequirements, activeIndex,
                     [allRequirements[activeIndex] EXCEPT
                        !.stage = CompleteCase, !.status = "Completed"])
          ELSE allRequirements
    /\ viewMode' = "dashboard"
    /\ activeIndex' = 0
    /\ currentStage' = 0
    /\ isApproved' = Null
    /\ workflowData' = EmptyData
    /\ UNCHANGED serverProjects
    /\ \E remounted \in {Mounted' # Mounted} : pending' = Settle(pending, 0, remounted)
    /\ last' = Entered("reset")
    /\ UNCHANGED <<resumes, navigation, dashboardVars>>

-----------------------------------------------------------------------------
(* Clicks that start a network call.  The call keeps the handler of the     *)
(* render in which the click happened.                                      *)

\* RequirementForm.handleSubmit up to the POST of the requirement; the backend
\* creates the project and gives it an id no other project has
StartRequirementSubmit(pid) ==
    /\ viewMode = "workflow"
    /\ Mounted = "RequirementForm"
    /\ ~loading
    /\ CanStart
    /\ pid \in ProjectIds \ serverProjects
    /\ serverProjects' = serverProjects \cup {pid}
    /\ pending' = Append(pending,
          Call("submit", TRUE, 0, EmptyData, 0, Len(allRequirements) + 1, pid,
               EmptyData, FALSE))
    /\ last' = Ran("startSubmit", EmptyData, FALSE)
    /\ UNCHANGED <<viewMode, allRequirements, activeIndex, currentStage,
                   isApproved, workflowData>>
    /\ UNCHANGED <<resumes, navigation, dashboardVars>>

\* handleSubmit / handleComplete of a stage screen up to its first fetch
StartStage ==
    /\ viewMode = "workflow"
    /\ Mounted \in StageScreens
    /\ ~loading
    /\ CanStart
    /\ LET pid == ProjectIdFor(currentStage, workflowData, currentRequirementId)
       IN  /\ HasProjectIdGuard(currentStage) => pid # Undefined
           /\ pending' = Append(pending,
                 Call("stage", TRUE, currentStage, workflowData, activeIndex, 0,
                      pid, StageData(currentStage, pid), FALSE))
    /\ last' = Ran("startStage", EmptyData, FALSE)
    /\ UNCHANGED <<viewMode, allRequirements, activeIndex, currentStage,
                   isApproved, workflowData, serverProjects>>
    /\ UNCHANGED <<resumes, navigation, dashboardVars>>

\* ApprovalGate.submitDecision up to the POST of the decision; the buttons
\* are rendered unless isApproved === false
StartDecision(approved) ==
    /\ viewMode = "workflow"
    /\ Mounted = "ApprovalGate"
    /\ isApproved # "false"
    /\ ~loading
    /\ CanStart
    /\ ProjectIdFor(currentStage, workflowData, currentRequirementId) # Undefined
    /\ pending' = Append(pending,
          Call("decision", TRUE, 0, EmptyData, activeIndex, 0,
               currentRequirementId, EmptyData, approved))
    /\ last' = Ran("startDecision", EmptyData, approved)
    /\ UNCHANGED <<viewMode, allRequirements, activeIndex, currentStage,
                   isApproved, workflowData, serverProjects>>
    /\ UNCHANGED <<resumes, navigation, dashboardVars>>

\* Dashboard: a progress card, handleViewProjectById up to its first fetch;
\* existingIndex and newIndex are read from the allRequirements of this render.
\* The card's current_page is only read after the fetches, so it is drawn
\* with their answers in CompleteViewProjectById.
StartViewProjectById(projectId) ==
    /\ viewMode = "dashboard"
    /\ resumes' = resumes + 1
    /\ projectId \in serverProjects
    /\ CanStart
    /\ pending' = Append(pending,
          Call("resume", FALSE, 0, EmptyData, findIndex(allRequirements, projectId),
               Len(allRequirements) + 1, projectId, EmptyData, FALSE))
    /\ last' = Ran("startViewProject", EmptyData, FALSE)
    /\ UNCHANGED <<viewMode, allRequirements, activeIndex, currentStage,
                   isApproved, workflowData, serverProjects>>
    /\ UNCHANGED <<navigation, dashboardVars>>

-----------------------------------------------------------------------------
(* Calls that return *)

\* a submit that seeds workflowData with the created project's id
handleRequirementSubmitSeedsData(s) ==
    /\ InFlight(s)
    /\ pending[s].kind = "submit"
    /\ allRequirements' = Append(allRequirements,
          Requirement(pending[s].pid, 1, "In Progress", Null, EmptyData))
    /\ activeIndex' = pending[s].newIdx
    /\ currentStage' = 1
    /\ workflowData' = [projectId |-> pending[s].pid]
    /\ UNCHANGED <<viewMode, isApproved, serverProjects>>
    /\ \E remounted \in {Mounted' # Mounted} : pending' = Settle(pending, s, remounted)
    /\ last' = Ran("submit", [projectId |-> pending[s].pid], FALSE)
    /\ UNCHANGED <<resumes, navigation, dashboardVars>>

\* what handleRequirementSubmit(data) commits
RequirementSubmitCommits(s) ==
    /\ InFlight(s)
    /\ pending[s].kind = "submit"
    /\ allRequirements' = Append(allRequirements,
          Requirement(pending[s].pid, 1, "In Progress", Null, EmptyData))
    /\ activeIndex' = pending[s].newIdx
    /\ currentStage' = 1
    /\ UNCHANGED <<viewMode, isApproved, workflowData, serverProjects>>
    /\ \E remounted \in {Mounted' # Mounted} : pending' = Settle(pending, s, remounted)
    /\ UNCHANGED <<resumes, dashboardVars>>

\* handleRequirementSubmit(data), called by RequirementForm after the POST;
\* of data the history keeps projectId
handleRequirementSubmit(s) ==
    /\ RequirementSubmitCommits(s)
    /\ last' = Ran("submit", [projectId |-> pending[s].pid], FALSE)
    /\ UNCHANGED navigation

\* what handleStageComplete(stageData) commits
StageCompleteCommits(s) ==
    /\ InFlight(s)
    /\ pending[s].kind = "stage"
    /\ LET newWorkflowData == Merge(pending[s].wd, pending[s].data)
           newStage == NewStage(pending[s].stage)
           index == pending[s].idx
       IN  /\ workflowData' = newWorkflowData
           /\ currentStage' = newStage
           /\ allRequirements' =
                 IF index # 0
                 THEN MapAt(allRequirements, index,
                            [allRequirements[index] EXCEPT
                               !.stage = newStage, !.workflowData = newWorkflowData])
                 ELSE allRequirements
    /\ UNCHANGED <<viewMode, activeIndex, isApproved, serverProjects>>
    /\ \E remounted \in {Mounted' # Mounted} : pending' = Settle(pending, s, remounted)
    /\ UNCHANGED <<resumes, dashboardVars>>

\* handleStageComplete(stageData), called by a stage screen after its calls
\* returned success
handleStageComplete(s) ==
    /\ StageCompleteCommits(s)
    /\ last' = Ran("advance", pending[s].data, FALSE)
    /\ UNCHANGED navigation

\* The screens that call onComplete although a call failed.  FunctionalAnalysis
\* does so when the POST of the assessment is answered "already exists" with a
\* status that is not ok.  ContractSigning makes no call but the updates of
\* progress and navigation, whose failures are caught and logged.
CompletesDespiteError == {1, 9}

\* The screens whose submit handler cannot end without calling onComplete:
\* every call of ContractSigning.handleComplete catches its own failure
NeverFails == {9}

\* handleStageComplete(stageData), called by a stage screen after a call failed
handleStageCompleteAfterError(s) ==
    /\ StageCompleteCommits(s)
    /\ pending[s].stage \in CompletesDespiteError
    /\ last' = Ran("advanceAfterError", pending[s].data, FALSE)
    /\ UNCHANGED navigation

\* what handleApproval(approved) commits
ApprovalCommits(s) ==
    /\ InFlight(s)
    /\ pending[s].kind = "decision"
    /\ LET approved == pending[s].approved
           index == pending[s].idx
       IN  /\ isApproved' = DecidedApproval(approved)
           /\ currentStage' = DecidedStage(approved, currentStage)
           /\ allRequirements' =
                 IF index = 0 THEN allRequirements
                 ELSE IF approved
                 THEN MapAt(allRequirements, index,
                            [allRequirements[index] EXCEPT
                               !.stage = PublishCase, !.isApproved = "true",
                               !.status = "Approved"])
                 ELSE MapAt(allRequirements, index,
                            [allRequirements[index] EXCEPT
                               !.isApproved = "false", !.status = "Rejected"])
    /\ UNCHANGED <<viewMode, activeIndex, workflowData, serverProjects>>
    /\ \E remounted \in {Mounted' # Mounted} : pending' = Settle(pending, s, remounted)
    /\ UNCHANGED <<resumes, dashboardVars>>

\* handleApproval(approved), called by ApprovalGate after the POST.  After a
\* rejection the screen also asks the backend to remove the project's progress
\* row; a failure of that request is only logged, so the card may stay.
handleApproval(s) ==
    /\ ApprovalCommits(s)
    /\ last' = Ran("decide", EmptyData, pending[s].approved)
    /\ UNCHANGED navigation

\* what handleViewProjectById commits after both fetches returned, with the frontendStage
\* it computed from their answers; completed stands for
\* project.overall_progress === 100; the project returned is the one asked for
ViewProjectByIdCommits(s, frontendStage, completed) ==
    /\ InFlight(s)
    /\ pending[s].kind = "resume"
    /\ LET reqFromApi ==
               Requirement(pending[s].pid, frontendStage,
                           IF completed THEN "Completed" ELSE "In Progress",
                           ResumeApproved(frontendStage), EmptyData)
           existingIndex == pending[s].idx
       IN  /\ IF existingIndex # 0
              THEN /\ allRequirements' = MapAt(allRequirements, existingIndex, reqFromApi)
                   /\ activeIndex' = existingIndex
              ELSE /\ allRequirements' = Append(allRequirements, reqFromApi)
                   /\ activeIndex' = pending[s].newIdx
           /\ currentStage' = frontendStage
           /\ isApproved' = ResumeApproved(frontendStage)
    /\ workflowData' = EmptyData
    /\ viewMode' = "workflow"
    /\ UNCHANGED serverProjects
    /\ \E remounted \in {Mounted' # Mounted} : pending' = Settle(pending, s, remounted)
    /\ UNCHANGED <<resumes, navigation, dashboardVars>>

\* the return of handleViewProjectById with the frontendStage it computed
CompleteViewProjectById(s, frontendStage, completed) ==
    /\ ViewProjectByIdCommits(s, frontendStage, completed)
    /\ last' = Entered("resume")

\* the same return of handleViewProjectById, drawn by the answers of the two
\* fetches and the card's current_page, which the history keeps
ResolveViewProjectById(s, navFound, navStage, currentPage, completed) ==
    /\ ViewProjectByIdCommits(s, FrontendStage(navFound, navStage, currentPage), completed)
    /\ last' = Resolved(pending[s].pid, pending[s].idx, navFound, navStage, currentPage)

\* a failure that nevertheless opens the workflow view
CallFailsOpensWorkflow(s) ==
    /\ InFlight(s)
    /\ pending[s].kind = "stage" => pending[s].stage \notin NeverFails
    /\ pending' = Settle(pending, s, FALSE)
    /\ last' = Failed(pending[s].kind)
    /\ viewMode' = "workflow"
    /\ UNCHANGED <<allRequirements, activeIndex, currentStage,
                   isApproved, workflowData, serverProjects>>
    /\ UNCHANGED <<resumes, navigation, dashboardVars>>

\* a fetch of the call fails (response not ok, or it throws): the screen
\* alerts, the callback into App is not made, finally clears the loading flag
CallFails(s) ==
    /\ InFlight(s)
    /\ pending[s].kind = "stage" => pending[s].stage \notin NeverFails
    /\ pending' = Settle(pending, s, FALSE)
    /\ last' = Failed(pending[s].kind)
    /\ UNCHANGED <<viewMode, allRequirements, activeIndex, currentStage,
                   isApproved, workflowData, serverProjects>>
    /\ UNCHANGED <<resumes, navigation, dashboardVars>>

-----------------------------------------------------------------------------
\* a record can be added while fewer than `limit` are kept
Room(limit) == Len(allRequirements) < limit

\* the resume of slot s updates a record in place, or there is room for one more
ResumeRoom(s, limit) ==
    InFlight(s) /\ pending[s].kind = "resume" /\ (pending[s].idx # 0 \/ Room(limit))

Next ==
    \/ handleNewRequirement
    \/ \E index \in 1 .. MaxReqs : handleViewRequirement(index)
    \/ handleBackToDashboard
    \/ handleReset
    \/ \E pid \in ProjectIds : StartRequirementSubmit(pid)
    \/ StartStage
    \/ \E approved \in BOOLEAN : StartDecision(approved)
    \/ \E pid \in ProjectIds : resumes < MaxResumes /\ StartViewProjectById(pid)
    \/ \E s \in Slots : Room(MaxReqs) /\ handleRequirementSubmit(s)
    \/ \E s \in Slots : handleStageComplete(s)
    \/ \E s \in Slots : handleStageCompleteAfterError(s)
    \/ \E s \in Slots : handleApproval(s)
    \/ \E s \in Slots, frontendStage \in FrontendStages, completed \in BOOLEAN :
          ResumeRoom(s, MaxReqs) /\ CompleteViewProjectById(s, frontendStage, completed)
    \/ \E s \in Slots : CallFails(s)

Spec == Init /\ [][Next]_vars

-----------------------------------------------------------------------------------------------------------------------------------------
(* The resume alone: one project is opened from its card, and every answer  *)
(* of the backend (navigation record found or not, its current_stage, the   *)
(* card's current_page, overall_progress) is drawn and kept in the history. *)

NextReconciler ==
    \/ \E pid \in ProjectIds : resumes < MaxResumes /\ StartViewProjectById(pid)
    \/ \E s \in Slots, navFound \in BOOLEAN, navStage \in NavStages,
          currentPage \in Pages, completed \in BOOLEAN :
          /\ ResumeRoom(s, MaxReqs)
          /\ ResolveViewProjectById(s, navFound, navStage, currentPage, completed)
    \/ \E index \in 1 .. MaxReqs : handleViewRequirement(index)
    \/ handleBackToDashboard
    \/ \E s \in Slots : CallFails(s)

ReconcilerSpec == Init /\ [][NextReconciler]_vars

-----------------------------------------------------------------------------
(* The dashboard alone: requirements are submitted and projects are opened  *)
(* from their cards, and no stage screen is used.  More records are kept    *)
(* and more cards are opened than in Spec.  The stage of a resume is drawn  *)
(* as the current_stage of a navigation record, which yields every stage a  *)
(* progress page yields.                                                    *)

NextDashboard ==
    \/ handleNewRequirement
    \/ \E index \in 1 .. MaxDashboardReqs : handleViewRequirement(index)
    \/ handleBackToDashboard
    \/ \E pid \in ProjectIds : StartRequirementSubmit(pid)
    \/ \E pid \in ProjectIds :
          resumes < MaxDashboardResumes /\ StartViewProjectById(pid)
    \/ \E s \in Slots : Room(MaxDashboardReqs) /\ handleRequirementSubmit(s)
    \/ \E s \in Slots, navStage \in NavStages, completed \in BOOLEAN :
          /\ ResumeRoom(s, MaxDashboardReqs)
          /\ ResolveViewProjectById(s, TRUE, navStage, 1, completed)
    \/ \E s \in Slots : CallFails(s)

DashboardSpec == Init /\ [][NextDashboard]_vars

-----------------------------------------------------------------------------
(* One requirement taken through the workflow: the user opens the form,     *)
(* submits it, completes every stage and the authority approves; every call *)
(* returns success and the user does nothing else.  The session may hold a  *)
(* record of an earlier project when it starts.  Each click and each return *)
(* of a call that is possible eventually happens.                           *)

\* the records kept when the user starts: none, or the record of a project
\* opened from its card earlier
EarlierRecords ==
    {<<>>} \cup
    {<<Requirement(pid, stage, status, ResumeApproved(stage), EmptyData)>> :
        pid \in InitialProjects, stage \in 0 .. CompleteCase,
        status \in {"In Progress", "Completed"}}

InitWorkflow ==
    /\ progressData = <<>>
    /\ progressSummary = NoSummary
    /\ rejectedData = NoRejected
    /\ dashboardLoading = TRUE
    /\ rounds = <<Sources>>
    /\ fetched = Fetched("mount", "none", TRUE)
    /\ viewMode = "dashboard"
    /\ allRequirements \in EarlierRecords
    /\ activeIndex = 0
    /\ currentStage = 0
    /\ isApproved = Null
    /\ workflowData = EmptyData
    /\ pending = <<>>
    /\ serverProjects = InitialProjects
    /\ last = Ran("init", EmptyData, FALSE)
    /\ resumes = 0
    /\ navigation = NoNavigation

NextWorkflow ==
    \/ handleNewRequirement
    \/ \E pid \in ProjectIds : StartRequirementSubmit(pid)
    \/ \E s \in Slots : handleRequirementSubmit(s)
    \/ StartStage
    \/ \E s \in Slots : handleStageComplete(s)
    \/ StartDecision(TRUE)
    \/ \E s \in Slots : handleApproval(s)

WorkflowSpec == InitWorkflow /\ [][NextWorkflow]_vars /\ WF_vars(NextWorkflow)

-----------------------------------------------------------------------------
(* The round trip through the backend's navigation records.  The backend    *)
(* accepts every navigation update, and a card is opened at the stage of    *)
(* the project's navigation record, or at the card's current_page when the  *)
(* project has none.                                                        *)

\* the number of progress cards opened in RoundTripSpec
MaxRoundTripResumes == 2

\* RequirementForm.handleSubmit from the answer of the POST on:
\* updateNavigation(data.project_id), then onSubmit
RequirementFormSubmitted(s) ==
    /\ RequirementSubmitCommits(s)
    /\ navigation' = updateNavigation(pending[s].pid, NavigationNextStage(0))
    /\ last' = Stored("stored", pending[s].pid, 0)

\* handleSubmit / handleComplete of a stage screen from the answer of its
\* POST on: updateNavigation(projectId), then onComplete
StageCompleted(s) ==
    /\ StageCompleteCommits(s)
    /\ navigation' = updateNavigation(pending[s].pid, NavigationNextStage(pending[s].stage))
    /\ last' = Stored(IF pending[s].pid \in ProjectIds THEN "stored" ELSE "notStored",
                      pending[s].pid, pending[s].stage)

\* ApprovalGate.submitDecision from the answer of the POST on: an approval
\* updates the navigation record, a rejection deletes it; then onApproval
DecisionSubmitted(s) ==
    /\ ApprovalCommits(s)
    /\ navigation' = IF pending[s].approved
                     THEN updateNavigation(pending[s].pid, NavigationNextStage(GateCase))
                     ELSE deleteNavigation(pending[s].pid)
    /\ last' = Stored(IF pending[s].approved THEN "stored" ELSE "deleted",
                      pending[s].pid, GateCase)

\* ProcurementComplete: the effect of its mount, initializeCompletionPage,
\* whose last step is markNavigationComplete(projectId)
initializeCompletionPage ==
    /\ viewMode = "workflow"
    /\ Mounted = "ProcurementComplete"
    /\ LET projectId == ProjectIdFor(CompleteCase, workflowData, currentRequirementId)
       IN  /\ projectId \in ProjectIds
           /\ navigation[projectId] # <<NavigationCompleteStage>>
           /\ navigation' = updateNavigation(projectId, NavigationCompleteStage)
           /\ last' = Stored("stored", projectId, CompleteCase)
    /\ UNCHANGED <<viewMode, allRequirements, activeIndex, currentStage,
                   isApproved, workflowData, pending, serverProjects>>
    /\ UNCHANGED <<resumes, dashboardVars>>

\* the return of handleViewProjectById when the navigation fetch answers with
\* the project's navigation record
ViewProjectByIdFromNavigation(s, currentPage, completed) ==
    /\ InFlight(s)
    /\ LET record == navigation[pending[s].pid]
           navFound == record # <<>>
           navStage == IF navFound THEN record[1] ELSE 0
       IN  ResolveViewProjectById(s, navFound, navStage, currentPage, completed)

NextRoundTrip ==
    \/ handleNewRequirement
    \/ handleBackToDashboard
    \/ \E pid \in ProjectIds : StartRequirementSubmit(pid)
    \/ StartStage
    \/ \E approved \in BOOLEAN : StartDecision(approved)
    \/ \E pid \in ProjectIds :
          resumes < MaxRoundTripResumes /\ StartViewProjectById(pid)
    \/ \E s \in Slots : Room(MaxReqs) /\ RequirementFormSubmitted(s)
    \/ \E s \in Slots : StageCompleted(s)
    \/ \E s \in Slots : DecisionSubmitted(s)
    \/ initializeCompletionPage
    \/ \E s \in Slots, currentPage \in Pages, completed \in BOOLEAN :
          /\ ResumeRoom(s, MaxReqs)
          /\ ViewProjectByIdFromNavigation(s, currentPage, completed)

RoundTripSpec == Init /\ [][NextRoundTrip]_vars

-----------------------------------------------------------------------------
(* The Dashboard alone.  It is mounted with loading = true and its effect   *)
(* calls fetchAllData, so the first round of fetches is in flight in Init.  *)
(* Refresh calls fetchAllData again and is never disabled.  A round is the  *)
(* set of its fetches that have not returned; when the last one returns,    *)
(* Promise.all resolves and setLoading(false) runs.  navigationData labels  *)
(* the cards only and is not kept.                                          *)

\* the fetch of `source` of round r returns: the round without it, and the
\* loading flag cleared when it was the last one
Returned(r, source) ==
    /\ r \in 1 .. Len(rounds)
    /\ source \in rounds[r]
    /\ IF rounds[r] = {source}
       THEN /\ rounds' = [i \in 1 .. Len(rounds) - 1 |->
                             IF i < r THEN rounds[i] ELSE rounds[i + 1]]
            /\ dashboardLoading' = FALSE
       ELSE /\ rounds' = [rounds EXCEPT ![r] = @ \ {source}]
            /\ UNCHANGED dashboardLoading

\* Refresh, or the effect of the mount
fetchAllData ==
    /\ dashboardLoading' = TRUE
    /\ rounds' = Append(rounds, Sources)
    /\ fetched' = Fetched("fetchAllData", "none", TRUE)
    /\ UNCHANGED <<progressData, progressSummary, rejectedData>>
    /\ UNCHANGED appVars

\* a progress fetch whose failure empties the list
fetchProgressDataClearsOnFailure(r, ok, projects) ==
    /\ Returned(r, "progress")
    /\ progressData' = IF ok THEN projects ELSE <<>>
    /\ fetched' = Fetched("return", "progress", ok)
    /\ UNCHANGED <<progressSummary, rejectedData>>
    /\ UNCHANGED appVars

\* if (response.ok) setProgressData(data.projects || []); a failure is logged
fetchProgressData(r, ok, projects) ==
    /\ Returned(r, "progress")
    /\ progressData' = IF ok THEN projects ELSE progressData
    /\ fetched' = Fetched("return", "progress", ok)
    /\ UNCHANGED <<progressSummary, rejectedData>>
    /\ UNCHANGED appVars

\* if (response.ok) setProgressSummary(data)
fetchProgressSummary(r, ok, data) ==
    /\ Returned(r, "summary")
    /\ progressSummary' = IF ok THEN data ELSE progressSummary
    /\ fetched' = Fetched("return", "summary", ok)
    /\ UNCHANGED <<progressData, rejectedData>>
    /\ UNCHANGED appVars

\* if (response.ok) setRejectedData(data)
fetchRejectedProjects(r, ok, data) ==
    /\ Returned(r, "rejected")
    /\ rejectedData' = IF ok THEN data ELSE rejectedData
    /\ fetched' = Fetched("return", "rejected", ok)
    /\ UNCHANGED <<progressData, progressSummary>>
    /\ UNCHANGED appVars

\* if (response.ok) setNavigationData(data.projects || [])
fetchNavigationData(r, ok) ==
    /\ Returned(r, "navigation")
    /\ fetched' = Fetched("return", "navigation", ok)
    /\ UNCHANGED <<progressData, progressSummary, rejectedData>>
    /\ UNCHANGED appVars

NextAggregator ==
    \/ Len(rounds) < MaxRounds /\ fetchAllData
    \/ \E r \in 1 .. MaxRounds, ok \in BOOLEAN, projects \in ProgressLists :
          fetchProgressData(r, ok, projects)
    \/ \E r \in 1 .. MaxRounds, ok \in BOOLEAN, data \in Summaries :
          fetchProgressSummary(r, ok, data)
    \/ \E r \in 1 .. MaxRounds, ok \in BOOLEAN, data \in RejectedLists :
          fetchRejectedProjects(r, ok, data)
    \/ \E r \in 1 .. MaxRounds, ok \in BOOLEAN : fetchNavigationData(r, ok)

AggregatorSpec == Init /\ [][NextAggregator]_vars

-----------------------------------------------------------------------------
(* Properties.  `last` names the handler that produced the current state    *)
(* and holds the state that handler ran on, so a property of one step is a  *)
(* predicate on the state after it.                                         *)

\* C1: for every stage s in 1..9, handleStageComplete run on a state with
\* currentStage = s leaves currentStage = s + 1, and the new workflowData has
\* the keys of the previous workflowData and of the stage data, with the
\* stage data's value for every key it supplies and the previous value for
\* every other key.
AdvanceIsNextStageAndMerge ==
    last.op = "advance" /\ last.stage \in 1 .. (CompleteCase - 1) =>
        /\ currentStage = last.stage + 1
        /\ DOMAIN workflowData = (DOMAIN last.wd) \cup (DOMAIN last.data)
        /\ \A k \in DOMAIN last.data : workflowData[k] = last.data[k]
        /\ \A k \in (DOMAIN last.wd) \ (DOMAIN last.data) : workflowData[k] = last.wd[k]

RejectionStopsAdvance ==
    /\ last.op = "decide" /\ ~last.approved =>
          currentStage = last.stage /\ isApproved = "false"
    /\ last.op = "advance" /\ last.appr = "false" =>
          currentStage = last.stage /\ isApproved = last.appr /\ workflowData = last.wd

RejectedIsTerminal ==
    \A i \in 1 .. Len(allRequirements) :
        allRequirements[i].isApproved = "false" =>
            /\ allRequirements[i].stage <= GateCase
            /\ viewMode = "workflow" /\ activeIndex = i =>
                  /\ currentStage <= GateCase
                  /\ ~(Mounted = "ApprovalGate" /\ isApproved # "false")

\* C6: handleApproval, the only handler that decides, runs only on the
\* approval screen and only while isApproved = null; the handlers that neither
\* decide, reset nor open a project leave isApproved as it was; and opening a
\* record of the local list shows the decision the record holds, so that a
\* decision once taken is not back at null.
ApprovalDecidedOnceAtGate ==
    /\ last.op = "viewRequirement" =>
          isApproved = allRequirements[activeIndex].isApproved
    /\ last.op = "decide" =>
          /\ last.view = "workflow"
          /\ renderWorkflowScreen(last.stage) = "ApprovalGate"
          /\ last.appr = Null
    /\ last.op \in {"submit", "advance", "failed", "startSubmit", "startStage",
                    "startDecision", "startViewProject"} =>
          isApproved = last.appr

\* C7: handleRequirementSubmit, handleStageComplete and handleApproval never
\* leave currentStage smaller than it was.
ForwardStepsNeverDecrease ==
    last.op \in {"submit", "advance", "decide"} => currentStage >= last.stage

\* C8: currentStage is in 0..10 and isApproved is null, true or false,
\* whatever the backend reports on a resume.
StageAndApprovalInRange ==
    /\ currentStage \in 0 .. CompleteCase
    /\ isApproved \in {Null, "true", "false"}

\* C9: for currentStage in 0..10 the workflow view shows a screen, no other
\* stage of 0..10 has that screen, stage 0 shows the requirement form and
\* stage 10 the completion screen.
ScreenPerStage ==
    viewMode = "workflow" /\ currentStage \in 0 .. CompleteCase =>
        /\ Mounted \in StageScreens \cup {"RequirementForm", "ApprovalGate",
                                          "ProcurementComplete"}
        /\ \A other \in (0 .. CompleteCase) \ {currentStage} :
              renderWorkflowScreen(other) # Mounted
        /\ currentStage = 0 => Mounted = "RequirementForm"
        /\ currentStage = CompleteCase => Mounted = "ProcurementComplete"

\* the completion screen is shown for a project that went through the last stage
CompletionShown ==
    /\ viewMode = "workflow" /\ currentStage = CompleteCase
    /\ Mounted = "ProcurementComplete"
    /\ last.op = "advance"

NavigationStageWins ==
    last.op = "resolve" /\ last.navFound =>
        currentStage =
            IF last.navStage >= CollapseFrom THEN CompleteCase ELSE last.navStage

\* a resume with navigation stage 7 and progress page 3 opened stage 7
NavigationSevenPageThree ==
    /\ last.op = "resolve" /\ last.navFound
    /\ last.navStage = 7 /\ last.currentPage = 3
    /\ viewMode = "workflow" /\ currentStage = 7

\* C12: a resume for which the backend returned no navigation record opens
\* the project at current_page - 1, or at 10 when that is 11 or more, for
\* every page number.
ProgressPageFallback ==
    last.op = "resolve" /\ ~last.navFound =>
        currentStage =
            IF last.currentPage - 1 >= CollapseFrom
            THEN CompleteCase ELSE last.currentPage - 1

\* a resume without a navigation record, from progress page 4, opened stage 3
FallbackFromPageFour ==
    /\ last.op = "resolve" /\ ~last.navFound
    /\ last.currentPage = 4 /\ last.navStage # 3
    /\ viewMode = "workflow" /\ currentStage = 3

\* C13: a resume whose stage, from the navigation record or from the progress
\* page, is 11 or more opens the completion screen at stage 10, and no resume
\* opens a stage above 10.
TerminalCollapse ==
    last.op = "resolve" =>
        LET source == IF last.navFound THEN last.navStage ELSE last.currentPage - 1
        IN  /\ source >= 11 =>
                  currentStage = CompleteCase /\ Mounted = "ProcurementComplete"
            /\ currentStage <= CompleteCase

\* a resume from progress page 12 without a navigation record opened stage 10
PageTwelveCollapsed ==
    /\ last.op = "resolve" /\ ~last.navFound /\ last.currentPage = 12
    /\ viewMode = "workflow" /\ currentStage = CompleteCase

\* C14: after a resume returned, currentStage is the resolved stage,
\* isApproved is true when that stage is 5 or more and null otherwise,
\* workflowData is empty, and a record of the resumed project carries that
\* stage and that isApproved; when the project had a record, it is that one.
ResumeCommitsStageAndRecord ==
    last.op = "resolve" =>
        LET source == IF last.navFound THEN last.navStage ELSE last.currentPage - 1
            resumeStage == IF source >= 11 THEN 10 ELSE source
            approved == IF resumeStage >= 5 THEN "true" ELSE Null
            Carries(i) ==
                /\ allRequirements[i].projectId = last.pid
                /\ allRequirements[i].stage = resumeStage
                /\ allRequirements[i].isApproved = approved
        IN  /\ viewMode = "workflow"
            /\ currentStage = resumeStage
            /\ isApproved = approved
            /\ workflowData = EmptyData
            /\ \E i \in 1 .. Len(allRequirements) : Carries(i)
            /\ last.existing # 0 => Carries(last.existing)

\* a project that had a record at stage 4, undecided, was resumed at stage 7
ResumedPastApproval ==
    /\ last.op = "resolve" /\ last.existing # 0
    /\ last.reqs[last.existing].stage = GateCase
    /\ last.reqs[last.existing].isApproved = Null
    /\ currentStage = 7 /\ isApproved = "true"
    /\ allRequirements[last.existing].stage = 7
    /\ allRequirements[last.existing].isApproved = "true"

\* C15: no two records share a project id; a resume that returns while the
\* project has a record leaves the number of records as it was, and a resume
\* that returns while the project has no record adds exactly one.
OneRecordPerProject ==
    /\ \A i, j \in 1 .. Len(allRequirements) :
          allRequirements[i].projectId = allRequirements[j].projectId => i = j
    /\ last.op = "resolve" =>
          Len(allRequirements) =
             IF findIndex(last.reqs, last.pid) # 0
             THEN Len(last.reqs) ELSE Len(last.reqs) + 1

\* C16: when a fetch of a resume fails, the failure is reported and viewMode,
\* currentStage, isApproved, workflowData, the active index and the records
\* are what they were before the failure.
FailedResumeCommitsNothing ==
    last.op = "failed" /\ last.kind = "resume" =>
        /\ last.alerted
        /\ viewMode = last.view
        /\ currentStage = last.stage
        /\ isApproved = last.appr
        /\ workflowData = last.wd
        /\ activeIndex = last.active
        /\ allRequirements = last.reqs

\* a resume failed while the dashboard was shown and one record was kept
ResumeFailedOnDashboard ==
    /\ last.op = "failed" /\ last.kind = "resume" /\ last.alerted
    /\ viewMode = "dashboard" /\ activeIndex = 0
    /\ Len(allRequirements) = 1

\* C17: handleRequirementSubmit runs only on a state with currentStage = 0;
\* it leaves currentStage = 1 and exactly one more record, of stage 1, status
\* In Progress and undecided, which is the active record, and the records
\* kept before are unchanged.
SubmitOnlyAtStageZero ==
    last.op = "submit" =>
        /\ last.stage = 0
        /\ currentStage = 1
        /\ Len(allRequirements) = Len(last.reqs) + 1
        /\ SubSeq(allRequirements, 1, Len(last.reqs)) = last.reqs
        /\ activeIndex = Len(allRequirements)
        /\ allRequirements[Len(allRequirements)].stage = 1
        /\ allRequirements[Len(allRequirements)].status = "In Progress"
        /\ allRequirements[Len(allRequirements)].isApproved = Null

\* C18, as the spec has it: after handleRequirementSubmit workflowData holds
\* the created project's id.
SubmitSeedsWorkflowData ==
    last.op = "submit" => Get(workflowData, "projectId") = last.data.projectId

\* C18, as the code has it: handleRequirementSubmit leaves workflowData as it
\* was; the created project's id is kept by the record it appends, whose own
\* workflowData is empty, and the screen of stage 1 reads the project id from
\* the active record whatever workflowData holds.
SubmitKeepsIdOnRecord ==
    last.op = "submit" =>
        /\ workflowData = last.wd
        /\ allRequirements =
              Append(last.reqs,
                     Requirement(last.data.projectId, 1, "In Progress", Null, EmptyData))
        /\ ProjectIdFor(currentStage, workflowData, currentRequirementId)
              = currentRequirementId

\* a form opened by New Requirement was submitted: workflowData is empty and
\* the screen of stage 1 works on the id of the new, active record
SubmittedFromNewForm ==
    /\ last.op = "submit" /\ last.stage = 0 /\ last.active = 0
    /\ workflowData = EmptyData
    /\ Mounted = "FunctionalAnalysis"
    /\ activeIndex = Len(allRequirements)
    /\ ProjectIdFor(currentStage, workflowData, currentRequirementId)
          = last.data.projectId

\* C19: Back to Dashboard can be clicked in every state of the workflow view,
\* and Start New Procurement in every state that shows the completion screen,
\* whatever calls are outstanding; either leaves currentStage = 0,
\* isApproved = null, workflowData empty and no active record.
ResetClearsSequencer ==
    /\ viewMode = "workflow" => ENABLED handleBackToDashboard
    /\ viewMode = "workflow" /\ Mounted = "ProcurementComplete" => ENABLED handleReset
    /\ last.op \in {"backToDashboard", "reset"} =>
          /\ currentStage = 0
          /\ isApproved = Null
          /\ workflowData = EmptyData
          /\ activeIndex = 0

\* Back to Dashboard was clicked on a project past the approval while a call
\* of its screen was outstanding
ResetDuringCall ==
    /\ last.op = "backToDashboard"
    /\ \E s \in 1 .. Len(pending) : pending[s].kind = "stage" /\ pending[s].idx # 0
    /\ \E i \in 1 .. Len(allRequirements) : allRequirements[i].stage >= PublishCase
    /\ currentStage = 0 /\ isApproved = Null
    /\ workflowData = EmptyData /\ activeIndex = 0

\* C20: handleStageComplete writes the new stage and the merged workflowData
\* onto the record that is active when it runs; every other record is
\* unchanged, and when no record is active all records are unchanged.
AdvanceWritesActiveRecordOnly ==
    last.op = "advance" =>
        /\ Len(allRequirements) = Len(last.reqs)
        /\ \A i \in 1 .. Len(last.reqs) :
              i # last.active => allRequirements[i] = last.reqs[i]
        /\ last.active # 0 =>
              /\ allRequirements[last.active].stage = currentStage
              /\ allRequirements[last.active].workflowData = workflowData

\* C21, as the spec has it: the four counts of the Dashboard are the number
\* of progress records, the number of those with 0 < progress < 100, the
\* number of those with progress = 100, and the number of projects in the
\* rejected list.
CountsOfSnapshotsAndRejectedSet ==
    /\ stats.total = Len(progressData)
    /\ stats.inProgress =
          Cardinality({i \in 1 .. Len(progressData) :
                          /\ progressData[i].overall_progress > 0
                          /\ progressData[i].overall_progress < 100})
    /\ stats.completed =
          Cardinality({i \in 1 .. Len(progressData) :
                          progressData[i].overall_progress = 100})
    /\ stats.rejected = Cardinality(rejectedData.projects)

\* C21, as the code has it: inProgress and completed are counted over the
\* progress records as specified; total is the total_projects of the progress
\* summary when one was fetched and it is not 0, and the number of progress
\* records otherwise; rejected is the total_rejected the backend reports.
CountsPreferBackendTotals ==
    /\ stats.total =
          IF ~progressSummary.loaded THEN Len(progressData)
          ELSE IF progressSummary.total_projects = 0 THEN Len(progressData)
          ELSE progressSummary.total_projects
    /\ stats.inProgress =
          Cardinality({i \in 1 .. Len(progressData) :
                          /\ progressData[i].overall_progress > 0
                          /\ progressData[i].overall_progress < 100})
    /\ stats.completed =
          Cardinality({i \in 1 .. Len(progressData) :
                          progressData[i].overall_progress = 100})
    /\ stats.rejected = rejectedData.total_rejected

\* two records, one complete and one under way, are shown with a summary
\* that reports another total and a rejected count that is not the length
\* of the rejected list
CountsWithDifferingTotals ==
    /\ Len(progressData) = 2
    /\ stats.completed = 1 /\ stats.inProgress = 1
    /\ progressSummary.loaded
    /\ stats.total = progressSummary.total_projects
    /\ stats.total # Len(progressData)
    /\ stats.rejected # Cardinality(rejectedData.projects)

\* the Dashboard holds the five records of the example and no rejected project
ScenarioHeld ==
    /\ progressData = Snapshots(ScenarioProgress)
    /\ rejectedData.projects = {}

\* C22, as the spec has it: with progress values [0, 50, 100, 100, 30] and an
\* empty rejected set the Dashboard shows completed = 2, inProgress = 3 and
\* total = 5.
ScenarioThreeInProgress ==
    ScenarioHeld =>
        stats.completed = 2 /\ stats.inProgress = 3 /\ stats.total = 5

\* C22, as the code has it: with those records the Completed card shows 2
\* and the In Progress card 2, the record at 0 being counted by neither; the
\* header of the Project Progress list counts 3, every record below 100 that
\* is not rejected; the Total card shows 5 when no summary is held or the
\* summary reports 0 or 5.
ScenarioTwoInProgress ==
    ScenarioHeld =>
        /\ stats.completed = 2
        /\ stats.inProgress = 2
        /\ listedInProgress = 3
        /\ (~progressSummary.loaded \/ progressSummary.total_projects \in {0, 5})
              => stats.total = 5

\* the five records were fetched, with a summary of 5, and the load is over
ScenarioLoaded ==
    /\ ScenarioHeld /\ ~dashboardLoading
    /\ progressSummary.loaded /\ progressSummary.total_projects = 5
    /\ stats.total = 5 /\ stats.completed = 2
    /\ stats.inProgress = 2 /\ listedInProgress = 3

NoTransitionWhileCallOutstanding ==
    \A s \in 1 .. Len(pending) :
        LET call == pending[s]
        IN  /\ call.kind = "stage" =>
                  /\ viewMode = "workflow"
                  /\ currentStage = call.stage
                  /\ workflowData = call.wd
                  /\ activeIndex = call.idx
            /\ call.kind = "decision" =>
                  /\ viewMode = "workflow"
                  /\ currentStage = GateCase
                  /\ activeIndex = call.idx
            /\ call.kind = "submit" =>
                  /\ viewMode = "workflow"
                  /\ Mounted = "RequirementForm"
                  /\ Len(allRequirements) + 1 = call.newIdx
            /\ call.kind = "resume" =>
                  /\ viewMode = "dashboard"
                  /\ findIndex(allRequirements, call.pid) = call.idx
                  /\ Len(allRequirements) + 1 = call.newIdx

\* C25: handleStageComplete and handleApproval are called only after the
\* call of the screen returned success; after a call of a stage screen or of
\* the approval screen failed, currentStage, isApproved, workflowData and the
\* screen shown are what they were.
TransitionOnlyAfterSuccess ==
    /\ last.op # "advanceAfterError"
    /\ last.op = "failed" /\ last.kind \in {"stage", "decision"} =>
          /\ currentStage = last.stage
          /\ isApproved = last.appr
          /\ workflowData = last.wd
          /\ viewMode = last.view

\* C26: when every call succeeds and the authority approves, each step
\* leaves currentStage as it is or raises it by one, so the screens of the
\* stages are visited in increasing order and none twice, and a form opened
\* at currentStage = 0 leads to the completion screen at currentStage = 10.
ReachesCompletionInOrder ==
    /\ [][currentStage' = currentStage \/ currentStage' = currentStage + 1]_vars
    /\ (viewMode = "workflow" /\ currentStage = 0)
          ~> (viewMode = "workflow" /\ currentStage = 10
                 /\ Mounted = "ProcurementComplete")

\* the completion screen is shown for the submitted requirement, approved,
\* its record at stage 10 beside the earlier record, and no call is outstanding
CompletionReached ==
    /\ viewMode = "workflow" /\ Mounted = "ProcurementComplete"
    /\ currentStage = 10 /\ isApproved = "true"
    /\ pending = <<>>
    /\ Len(allRequirements) = 2 /\ activeIndex = 2
    /\ allRequirements[2].stage = 10

\* the screens that follow the approval screen
PostGateScreens ==
    {"PublishRFP", "ReceiveBids", "VendorEvaluation", "PurchaseOrder",
     "ContractSigning", "ProcurementComplete"}

\* C27: whenever the workflow view shows a screen that follows the approval
\* screen, isApproved is true.
PostGateScreenIsApproved ==
    viewMode = "workflow" /\ Mounted \in PostGateScreens => isApproved = "true"

\* C28: whenever a record is active in the workflow view, its stored stage
\* is currentStage and its workflowData is the current workflowData.
ActiveRecordMatchesState ==
    viewMode = "workflow" /\ activeIndex # 0 =>
        /\ activeIndex <= Len(allRequirements)
        /\ allRequirements[activeIndex].stage = currentStage
        /\ allRequirements[activeIndex].workflowData = workflowData

-----------------------------------------------------------------------------
-----------------------------------------------------------------------------
\* C30: while a screen of cases 1 to 10 is shown, the sidebar gives 'current'
\* to the registry entry of that screen (the gate entry while the approval
\* screen is shown and no rejection was made), 'completed' to exactly the
\* entries of the screens before it, and 'rejected' to the gate entry when
\* isApproved is false.
SidebarMarksRenderedScreen ==
    viewMode = "workflow" /\ currentStage \in 1 .. CompleteCase =>
        \A i \in 1 .. Len(stages) :
            LET entry == stages[i]
                status == getStageStatus(entry.id)
                page == PageOf(Mounted)
                rejected == entry.isGate /\ isApproved = "false"
            IN  /\ rejected => status = "rejected"
                /\ ~rejected => /\ status = "current" <=> entry.id = page
                                /\ status = "completed" <=> entry.id < page

====
